---- MODULE Spec2Model ----
(***************************************************************************)
(* Model of alignCrossSections.py (Cross-section aligner v1.0.0).          *)
(*                                                                         *)
(* main() is modelled as a state machine: option validation, output        *)
(* directory set-up, log file set-up, threshold grid generation and header *)
(* write, then the loop over the reference files with its nested search    *)
(* over the two threshold grids, and the final "Finished" line.            *)
(*                                                                         *)
(* alignImages() calls OpenCV; what it returns for given images is an      *)
(* input of the model: a scale factor (in hundredths) or a raised          *)
(* exception.  Within one run every (file, threshold pair) is passed to    *)
(* alignImages at most once, so choosing the result at the call is the     *)
(* same as choosing the images beforehand.                                 *)
(*                                                                         *)
(* To compare two runs of the program on the same inputs, the clock and    *)
(* the log are kept per run (runs): the runs receive the same options,     *)
(* directory contents and alignImages results, and differ only in what     *)
(* datetime.now() returns.  No branch of main() reads the clock, so their  *)
(* control state coincides and is kept once.  Spec has one run, SpecRerun  *)
(* has two.                                                                *)
(***************************************************************************)
EXTENDS Integers, Sequences, FiniteSets, TLC

(* ---- bounds of the model ---- *)
MaxFiles == 2          \* at most this many files in the reference directory
MaxStepGrid == 3       \* steps 0..MaxStepGrid in the grid specification
MaxChangeGrid == 20    \* max changes 0..MaxChangeGrid in the grid specification

(* ---- program constant ---- *)
MaxThreshold == 255

\* the values datetime.now() returns
Time == {0, 1}

(* Inputs of the pipeline specification.                                   *)
ReferenceThresholdInputs == {100, 255, 256}
TargetThresholdInputs == {0, 255, 256}
StepInputs == {0, 2}
MaxChangeInputs == {2, 3}
\* scale factor boundaries in hundredths, as parsed from -b (line 93)
BoundaryInputs == {<<95, 105>>, <<-5, 105>>, <<105, 95>>, <<95>>}
\* scale factors alignImages may return, in hundredths
ScaleValues == {94, 95, 105, 106}
OutputDirectoryInputs == {<< >>, <<"out">>}

VARIABLES
    runs,                           \* the runs of the program that are compared
    pc,                             \* position in main()
    exitCause,                      \* why the run ended before the file loop, or "none"
    tresholdReferenceImages,        \* line 63 / 85
    tresholdTargetImages,           \* line 64 / 87
    tresholdChangeSteps,            \* line 65 / 89
    tresholdMaxChange,              \* line 66 / 91
    scaleFactorBoundaries,          \* line 67 / 93
    suppressOverlapImages,          \* line 68 / 99
    outputDirectory,                \* line 61 / 95: a path, as a sequence of names and "/"
    logFile,                        \* per run: the lines written to the log
    logClosed,                      \* logFile.close() was called
    now,                            \* per run: the last value datetime.now() returned
    logFileName,                    \* per run: the time stamp in the log file's name
    referenceFiles,                 \* line 220
    tresholdRangeReferenceImages,   \* line 229
    tresholdRangeTargetImages,      \* line 230
    fileNumber,                     \* line 256 / 260
    scaleFactor,                    \* line 263 / 272
    iIdx, jIdx,                     \* positions of the two for loops (lines 269, 270), 1 outside them
    transformedImage,               \* line 272: the images of the last returned call
    nCalls,                         \* history: alignImages calls made for the current file
    usedThresholds,                 \* history: thresholds of the last alignImages call
    lastResult,                     \* history: what the last alignImages call did
    written,                        \* the cv2.imwrite calls that succeeded, in order
    pairOutcome                     \* history: how each file's processing ended

vars == <<runs, pc, exitCause, tresholdReferenceImages, tresholdTargetImages,
          tresholdChangeSteps, tresholdMaxChange, scaleFactorBoundaries,
          suppressOverlapImages, outputDirectory, logFile, logClosed, now,
          logFileName, referenceFiles, tresholdRangeReferenceImages,
          tresholdRangeTargetImages, fileNumber, scaleFactor, iIdx, jIdx,
          transformedImage, nCalls, usedThresholds, lastResult, written,
          pairOutcome>>

\* the options and what is derived from them before the file loop
config == <<runs, tresholdReferenceImages, tresholdTargetImages, tresholdChangeSteps,
            tresholdMaxChange, scaleFactorBoundaries, suppressOverlapImages>>
ranges == <<referenceFiles, tresholdRangeReferenceImages, tresholdRangeTargetImages>>
search == <<fileNumber, scaleFactor, iIdx, jIdx, transformedImage, nCalls,
            usedThresholds, lastResult, written, pairOutcome>>

(* ======================= pure helpers ================================== *)

\* np.minimum on two integers
Minimum(a, b) == IF a <= b THEN a ELSE b

\* number of elements of Python's range(start, stop, step), step # 0
RangeLen(start, stop, step) ==
    IF step > 0
    THEN IF start < stop THEN ((stop - start - 1) \div step) + 1 ELSE 0
    ELSE IF start > stop THEN ((start - stop - 1) \div (-step)) + 1 ELSE 0

\* Python's range(start, stop, step) as a sequence
Range(start, stop, step) ==
    [k \in 1..RangeLen(start, stop, step) |-> start + (k - 1) * step]

\* variant: the increase not limited by the base threshold
MaxIncreaseWide(b, m) == Minimum(MaxThreshold, m)

\* lines 223, 225: tresholdMaxChange...Images
MaxIncrease(b, m) == Minimum(MaxThreshold - b, m)

\* lines 224, 226: tresholdMaxDecrease...Images
MaxDecrease(b, m) == Minimum(b, m)

\* variant: both stops included
TresholdRangeInclusive(b, s, m) ==
    Range(0, MaxIncrease(b, m) + 1, s) \o Range(-s, -MaxDecrease(b, m) - 1, -s)

\* lines 229, 230: the list of threshold offsets of one image kind
TresholdRange(b, s, m) ==
    Range(0, MaxIncrease(b, m), s) \o Range(-s, -MaxDecrease(b, m), -s)

\* variants: the open interval; the lower boundary alone
InBoundsExclusive(sf) == scaleFactorBoundaries[1] < sf /\ sf < scaleFactorBoundaries[2]
InBoundsLowOnly(sf) == scaleFactorBoundaries[1] <= sf

\* lines 271, 274, 277, 280: low <= scaleFactor <= high
InBounds(sf) == scaleFactorBoundaries[1] <= sf /\ sf <= scaleFactorBoundaries[2]

\* variant: the lower boundary is not checked against 0
ValidOptionsAnyLow ==
    /\ 0 <= tresholdReferenceImages /\ tresholdReferenceImages <= MaxThreshold
    /\ 0 <= tresholdTargetImages /\ tresholdTargetImages <= MaxThreshold
    /\ Len(scaleFactorBoundaries) = 2
    /\ ~(scaleFactorBoundaries[1] >= scaleFactorBoundaries[2])

\* lines 117-139: the options pass the checks on thresholds and boundaries
ValidOptions ==
    /\ 0 <= tresholdReferenceImages /\ tresholdReferenceImages <= MaxThreshold
    /\ 0 <= tresholdTargetImages /\ tresholdTargetImages <= MaxThreshold
    /\ Len(scaleFactorBoundaries) = 2
    /\ ~(scaleFactorBoundaries[1] < 0)
    /\ ~(scaleFactorBoundaries[1] >= scaleFactorBoundaries[2])

\* line 143: the default output directory
DefaultOutputDirectory == <<"Alignments">>

\* the name of the k-th file of the reference directory
FileName(k) == ToString(k)

\* How the operating system resolves a path: repeated "/" count as one.
Resolve(path) == SelectSeq(path, LAMBDA c : c # "/")

\* variant: every line after the header carries the start time
LogWriteStamped(log, line) ==
    IF log = << >> THEN Append(log, line)
    ELSE Append(log, line @@ [stamp |-> log[1].start])

\* logFile.write(text) on one run's log
LogWrite(log, line) == Append(log, line)

\* the same text written by both runs
WriteAll(line) == logFile' = [r \in runs |-> LogWrite(logFile[r], line)]

\* lines 236-250: the header of the log
HeaderLine(name, start) ==
    [kind |-> "header",
     outputDirectory |-> outputDirectory,
     logfile |-> name,
     tresholdReferenceImages |-> tresholdReferenceImages,
     tresholdTargetImages |-> tresholdTargetImages,
     rangeReference |-> TresholdRange(tresholdReferenceImages, tresholdChangeSteps, tresholdMaxChange),
     rangeTarget |-> TresholdRange(tresholdTargetImages, tresholdChangeSteps, tresholdMaxChange),
     boundaries |-> scaleFactorBoundaries,
     start |-> start]

\* line 275
AlignedLine(file, usedRef, usedTgt, sf) ==
    [kind |-> "aligned", file |-> file, usedReference |-> usedRef,
     usedTarget |-> usedTgt, scaleFactor |-> sf]

\* line 282
UnsuccessfulLine(file) == [kind |-> "unsuccessful", file |-> file]

\* line 298
ErrorLine(file, e) == [kind |-> "error", file |-> file, error |-> e]

\* line 301
FinishedLine(t) == [kind |-> "finished", time |-> t]

\* what alignImages (lines 345-394) can do for given thresholds and file:
\* raise (unreadable image: cvtColor on None, line 351; no descriptors,
\* too few matches or no matrix: lines 366, 377, 381, 384), or return.
AlignImagesResults ==
    {[kind |-> "raise", error |-> e] : e \in {"ImageLoadError", "EstimationFailure"}}
    \cup {[kind |-> "return", scaleFactor |-> v] : v \in ScaleValues}

\* the image pair returned by alignImages for a file and thresholds
Images(file, usedRef, usedTgt) ==
    [file |-> file, usedReference |-> usedRef, usedTarget |-> usedTgt]
NoImages == [file |-> "", usedReference |-> -1, usedTarget |-> -1]

\* variant: the overlap image is written whatever the option says
SaveOutputAlways(dir, file, img, suppress) ==
    << [path |-> dir \o <<file>>, image |-> <<"transformed", img>>],
       [path |-> dir \o <<"overlap", "/", file>>, image |-> <<"overlap", img>>] >>

\* lines 287-290: the cv2.imwrite calls of an accepted pair
SaveOutput(dir, file, img, suppress) ==
    << [path |-> dir \o <<file>>, image |-> <<"transformed", img>>] >>
    \o (IF ~suppress
        THEN << [path |-> dir \o <<"overlap", "/", file>>, image |-> <<"overlap", img>>] >>
        ELSE << >>)

\* the values datetime.now() can return in the two runs
Clocks == {t \in [runs -> Time] : \A r \in runs : t[r] >= now[r]}

(* ======================= the pipeline ================================== *)

\* what main() has not yet assigned
InitRun ==
    /\ exitCause = "none"
    /\ logFile = [r \in runs |-> << >>]
    /\ logClosed = FALSE
    /\ now = [r \in runs |-> 0]
    /\ logFileName = [r \in runs |-> 0]
    /\ referenceFiles = << >>
    /\ tresholdRangeReferenceImages = << >>
    /\ tresholdRangeTargetImages = << >>
    /\ fileNumber = 0
    /\ scaleFactor = -1
    /\ iIdx = 1
    /\ jIdx = 1
    /\ transformedImage = NoImages
    /\ nCalls = 0
    /\ usedThresholds = <<-1, -1>>
    /\ lastResult = "none"
    /\ written = << >>
    /\ pairOutcome = << >>

\* one run, options from the input sets
Init ==
    /\ runs = {1}
    /\ tresholdReferenceImages \in ReferenceThresholdInputs
    /\ tresholdTargetImages \in TargetThresholdInputs
    /\ tresholdChangeSteps \in StepInputs
    /\ tresholdMaxChange \in MaxChangeInputs
    /\ scaleFactorBoundaries \in BoundaryInputs
    /\ suppressOverlapImages \in BOOLEAN
    /\ outputDirectory \in OutputDirectoryInputs
    /\ pc = "validate"
    /\ InitRun

\* sys.exit(...) or an uncaught exception before the file loop
Exit(cause) ==
    /\ pc' = "exit"
    /\ exitCause' = cause

\* lines 101-139: the checks on the directories, thresholds and boundaries
ParseAndValidate ==
    /\ pc = "validate"
    /\ \E directories \in {"ok", "missing", "same"} :
          IF directories # "ok" THEN Exit("directories")
          ELSE IF ~ValidOptions THEN Exit("options")
          ELSE pc' = "outdir" /\ exitCause' = exitCause
    /\ UNCHANGED <<config, outputDirectory, logFile, logClosed, now, logFileName,
                   ranges, search>>

\* lines 141-186: create the output directory, fall back to the default once,
\* ask before writing into a non-empty directory.  (outputDirectory is never
\* empty in the except clause, so line 176 is not reached.)
SetupOutputDirectory ==
    /\ pc = "outdir"
    /\ \E failed \in BOOLEAN, fallbackFailed \in BOOLEAN,
          listing \in {"proceed", "declined", "error"} :
          LET chosen == IF outputDirectory = << >> THEN DefaultOutputDirectory
                        ELSE outputDirectory
          IN  /\ outputDirectory' = IF failed THEN DefaultOutputDirectory ELSE chosen
              /\ IF failed /\ fallbackFailed THEN Exit("outputDirectory")
                 ELSE IF listing = "declined" THEN Exit("declined")
                 ELSE IF listing = "error" THEN Exit("outputDirectory")
                 ELSE pc' = "logfile" /\ exitCause' = exitCause
    /\ UNCHANGED <<config, logFile, logClosed, now, logFileName, ranges, search>>

\* lines 188-217: name the log file after the current time and open it, fall
\* back to the default location once
OpenLogFile ==
    /\ pc = "logfile"
    /\ \E t \in Clocks, given \in BOOLEAN, failed \in BOOLEAN, fallbackFailed \in BOOLEAN :
          /\ now' = t
          /\ logFileName' = t
          /\ IF failed /\ (~given \/ fallbackFailed) THEN Exit("logFile")
             ELSE pc' = "prepare" /\ exitCause' = exitCause
    /\ UNCHANGED <<config, outputDirectory, logFile, logClosed, ranges, search>>

\* lines 219-257: list the reference files, build the two threshold ranges,
\* write the header, start the progress bar.  range() raises ValueError for
\* a step of 0 (line 229); 0 / len(referenceFiles) raises ZeroDivisionError
\* for an empty reference directory (line 257).
Prepare ==
    /\ pc = "prepare"
    /\ \E n \in 0..MaxFiles, t \in Clocks :
          /\ referenceFiles' = [k \in 1..n |-> FileName(k)]
          /\ IF tresholdChangeSteps = 0
             THEN /\ Exit("ValueError")
                  /\ UNCHANGED <<tresholdRangeReferenceImages, tresholdRangeTargetImages,
                                 logFile, now, pairOutcome>>
             ELSE /\ tresholdRangeReferenceImages' =
                        TresholdRange(tresholdReferenceImages, tresholdChangeSteps, tresholdMaxChange)
                  /\ tresholdRangeTargetImages' =
                        TresholdRange(tresholdTargetImages, tresholdChangeSteps, tresholdMaxChange)
                  /\ now' = t
                  /\ logFile' = [r \in runs |->
                                   LogWrite(logFile[r], HeaderLine(logFileName[r], t[r]))]
                  /\ pairOutcome' = [k \in 1..n |-> "pending"]
                  /\ IF n = 0 THEN Exit("ZeroDivisionError")
                     ELSE pc' = "loop" /\ exitCause' = exitCause
    /\ UNCHANGED <<config, outputDirectory, logClosed, logFileName, fileNumber,
                   scaleFactor, iIdx, jIdx, transformedImage, nCalls, usedThresholds,
                   lastResult, written>>

\* lines 297-298: an exception raised inside the try block of a file ends
\* that file with a line in the log; the for loop goes on
HandleError(file, e) ==
    /\ WriteAll(ErrorLine(file, e))
    /\ pairOutcome' = [pairOutcome EXCEPT ![fileNumber] = "error"]
    /\ pc' = "loop"

\* lines 259-263: take the next reference file; go on only if the target
\* directory has a file of the same name
NextFile ==
    /\ pc = "loop"
    /\ fileNumber < Len(referenceFiles)
    /\ fileNumber' = fileNumber + 1
    /\ \E targetExists \in BOOLEAN :
          IF ~targetExists
          THEN /\ pairOutcome' = [pairOutcome EXCEPT ![fileNumber + 1] = "skipped"]
               /\ UNCHANGED <<pc, scaleFactor>>
          ELSE /\ scaleFactor' = -1
               /\ pc' = IF Len(tresholdRangeReferenceImages) > 0
                           /\ Len(tresholdRangeTargetImages) > 0
                        THEN "search" ELSE "post"
               /\ UNCHANGED pairOutcome
    /\ iIdx' = 1
    /\ jIdx' = 1
    /\ nCalls' = 0
    /\ usedThresholds' = <<-1, -1>>
    /\ lastResult' = "none"
    /\ UNCHANGED <<exitCause, config, outputDirectory, logFile, logClosed, now,
                   logFileName, ranges, transformedImage, written>>

\* lines 269-278: one iteration of the inner loop at offsets (i, j)
Attempt ==
    /\ pc = "search"
    /\ LET file == referenceFiles[fileNumber]
           usedRef == tresholdReferenceImages + tresholdRangeReferenceImages[iIdx]
           usedTgt == tresholdTargetImages + tresholdRangeTargetImages[jIdx]
           lastJ == jIdx = Len(tresholdRangeTargetImages)
           lastI == iIdx = Len(tresholdRangeReferenceImages)
       IN
       IF InBounds(scaleFactor)
       THEN \* line 271 is false: no call; line 277 leaves the outer loop
            /\ pc' = "post"
            /\ iIdx' = 1
            /\ jIdx' = 1
            /\ UNCHANGED <<logFile, scaleFactor, transformedImage, nCalls,
                           usedThresholds, lastResult, pairOutcome>>
       ELSE \E res \in AlignImagesResults :
            /\ nCalls' = nCalls + 1
            /\ usedThresholds' = <<usedRef, usedTgt>>
            /\ IF res.kind = "raise"
               THEN \* lines 297-298
                    /\ lastResult' = res.error
                    /\ HandleError(file, res.error)
                    /\ iIdx' = 1
                    /\ jIdx' = 1
                    /\ UNCHANGED <<scaleFactor, transformedImage>>
               ELSE /\ lastResult' = "returned"
                    /\ scaleFactor' = res.scaleFactor
                    /\ transformedImage' = Images(file, usedRef, usedTgt)
                    /\ UNCHANGED pairOutcome
                    /\ IF InBounds(res.scaleFactor)
                       THEN \* lines 275-278
                            /\ WriteAll(AlignedLine(file, usedRef, usedTgt, res.scaleFactor))
                            /\ pc' = "post"
                            /\ iIdx' = 1
                            /\ jIdx' = 1
                       ELSE \* next j, or next i with the first j, or both loops end
                            /\ UNCHANGED logFile
                            /\ iIdx' = IF lastJ /\ lastI THEN 1
                                       ELSE IF lastJ THEN iIdx + 1 ELSE iIdx
                            /\ jIdx' = IF lastJ THEN 1 ELSE jIdx + 1
                            /\ pc' = IF lastJ /\ lastI THEN "post" ELSE "search"
    /\ UNCHANGED <<exitCause, config, outputDirectory, logClosed, now, logFileName,
                   ranges, fileNumber, written>>

\* lines 280-293 (and 297-298 when cv2.imwrite raises)
Conclude ==
    /\ pc = "post"
    /\ LET file == referenceFiles[fileNumber] IN
       IF ~InBounds(scaleFactor)
       THEN /\ WriteAll(UnsuccessfulLine(file))
            /\ pairOutcome' = [pairOutcome EXCEPT ![fileNumber] = "failed"]
            /\ pc' = "loop"
            /\ UNCHANGED <<outputDirectory, written>>
       ELSE /\ outputDirectory' = Append(outputDirectory, "/")
            /\ \E done \in 0..2 :
                  LET writes == SaveOutput(outputDirectory', file, transformedImage,
                                           suppressOverlapImages)
                  IN  /\ done <= Len(writes)
                      /\ written' = written \o SubSeq(writes, 1, done)
                      /\ IF done < Len(writes)
                         THEN HandleError(file, "WriteError")
                         ELSE /\ UNCHANGED logFile
                              /\ pairOutcome' = [pairOutcome EXCEPT ![fileNumber] = "accepted"]
                              /\ pc' = "loop"
    /\ UNCHANGED <<exitCause, config, logClosed, now, logFileName, ranges, fileNumber,
                   scaleFactor, iIdx, jIdx, transformedImage, nCalls, usedThresholds,
                   lastResult>>

\* lines 294-296: KeyboardInterrupt inside the try block
Interrupt ==
    /\ pc \in {"search", "post"}
    /\ logClosed' = TRUE
    /\ pc' = "interrupted"
    /\ UNCHANGED <<exitCause, config, outputDirectory, logFile, now, logFileName,
                   ranges, search>>

\* lines 300-302
Finish ==
    /\ pc = "loop"
    /\ fileNumber = Len(referenceFiles)
    /\ \E t \in Clocks :
          /\ now' = t
          /\ logFile' = [r \in runs |-> LogWrite(logFile[r], FinishedLine(t[r]))]
    /\ logClosed' = TRUE
    /\ pc' = "done"
    /\ UNCHANGED <<exitCause, config, outputDirectory, logFileName, ranges, search>>

Next ==
    \/ ParseAndValidate
    \/ SetupOutputDirectory
    \/ OpenLogFile
    \/ Prepare
    \/ NextFile
    \/ Attempt
    \/ Conclude
    \/ Interrupt
    \/ Finish

Spec == Init /\ [][Next]_vars

(* ---- two runs on the same inputs ---- *)

InitRerun ==
    /\ runs = {1, 2}
    /\ tresholdReferenceImages = 100
    /\ tresholdTargetImages = 0
    /\ tresholdChangeSteps \in StepInputs
    /\ tresholdMaxChange \in MaxChangeInputs
    /\ scaleFactorBoundaries = <<95, 105>>
    /\ suppressOverlapImages \in BOOLEAN
    /\ outputDirectory = <<"out">>
    /\ pc = "validate"
    /\ InitRun

SpecRerun == InitRerun /\ [][Next]_vars

(* ---- one run with a lower scale factor boundary of 0 ---- *)

\* -b 0,1 (or the rejected -b -0.05,1.05); the ranges of the base
\* thresholds cover a full grid, a single pair and an empty range
InitLowZero ==
    /\ runs = {1}
    /\ tresholdReferenceImages \in {100, 255}
    /\ tresholdTargetImages \in {0, 255}
    /\ tresholdChangeSteps = 2
    /\ tresholdMaxChange \in MaxChangeInputs
    /\ scaleFactorBoundaries \in {<<0, 100>>, <<-5, 105>>}
    /\ suppressOverlapImages \in BOOLEAN
    /\ outputDirectory = <<"out">>
    /\ pc = "validate"
    /\ InitRun

SpecLowZero == InitLowZero /\ [][Next]_vars

(* ---- the threshold ranges alone, for every base threshold ---- *)

\* main() about to build the ranges (line 222), the options having passed
\* the checks
InitGrid ==
    /\ runs = {1}
    /\ tresholdReferenceImages \in 0..MaxThreshold
    /\ tresholdTargetImages = MaxThreshold - tresholdReferenceImages
    /\ tresholdChangeSteps \in 0..MaxStepGrid
    /\ tresholdMaxChange \in 0..MaxChangeGrid
    /\ scaleFactorBoundaries = <<95, 105>>
    /\ suppressOverlapImages = FALSE
    /\ outputDirectory = DefaultOutputDirectory
    /\ pc = "prepare"
    /\ InitRun

NextGrid == Prepare

SpecGrid == InitGrid /\ [][NextGrid]_vars

(* ======================= properties ==================================== *)

\* the lines of a log that name a given file
LinesOf(log, file) ==
    {n \in 1..Len(log) : log[n].kind # "header" /\ log[n].kind # "finished"
                          /\ log[n].file = file}

\* the closed interval [low, high] of the scale factor boundaries
InInterval(sf) == scaleFactorBoundaries[1] <= sf /\ sf <= scaleFactorBoundaries[2]

\* The threshold pairs of a file's search in iteration order: reference
\* offsets outer, target offsets inner, each range in its generated order.
GridOrder ==
    LET nR == Len(tresholdRangeReferenceImages)
        nT == Len(tresholdRangeTargetImages)
    IN  [n \in 1..(nR * nT) |->
            <<tresholdReferenceImages + tresholdRangeReferenceImages[((n - 1) \div nT) + 1],
              tresholdTargetImages + tresholdRangeTargetImages[((n - 1) % nT) + 1]>>]

\* the ranges have been built (line 230 was passed)
RangesBuilt == pc # "prepare" /\ exitCause # "ValueError"

(* ---- C1 ---- *)
\* C1: for every base threshold b in 0..255, step s > 0 and max change
\* m > 0, every offset o of the reference range and of the target range
\* satisfies 0 <= b + o <= 255.
C1_GridBounds ==
    (RangesBuilt /\ tresholdChangeSteps > 0 /\ tresholdMaxChange > 0) =>
        /\ \A k \in 1..Len(tresholdRangeReferenceImages) :
              /\ 0 <= tresholdReferenceImages + tresholdRangeReferenceImages[k]
              /\ tresholdReferenceImages + tresholdRangeReferenceImages[k] <= 255
        /\ \A k \in 1..Len(tresholdRangeTargetImages) :
              /\ 0 <= tresholdTargetImages + tresholdRangeTargetImages[k]
              /\ tresholdTargetImages + tresholdRangeTargetImages[k] <= 255

\* a base threshold 5 below the top with max change 20: the range is cut at
\* the top, reaches threshold 254 upwards and 231 downwards
C1_Witness ==
    /\ RangesBuilt
    /\ tresholdReferenceImages = 250 /\ tresholdChangeSteps = 1 /\ tresholdMaxChange = 20
    /\ \E k \in 1..Len(tresholdRangeReferenceImages) :
          tresholdReferenceImages + tresholdRangeReferenceImages[k] = 254
    /\ \E k \in 1..Len(tresholdRangeReferenceImages) :
          tresholdReferenceImages + tresholdRangeReferenceImages[k] = 231

(* ---- C2 ---- *)
\* C2: the search is first-fit.  Every alignImages call of a file uses the
\* next threshold pair of the iteration order; a call is made only while
\* no scale factor inside [low, high] has been returned for the file; and
\* the call that returns a scale factor inside [low, high] ends the search
\* with that pair logged as the aligned one.
C2_FirstFit ==
    [][(nCalls' = nCalls + 1) =>
          /\ ~InInterval(scaleFactor)
          /\ nCalls' <= Len(GridOrder)
          /\ usedThresholds' = GridOrder[nCalls']
          /\ (lastResult' = "returned" /\ InInterval(scaleFactor')) =>
                /\ pc' = "post"
                /\ \A r \in runs :
                      logFile'[r] = Append(logFile[r],
                          AlignedLine(referenceFiles[fileNumber], usedThresholds'[1],
                                      usedThresholds'[2], scaleFactor'))
          /\ (lastResult' = "returned" /\ ~InInterval(scaleFactor')
                /\ nCalls' < Len(GridOrder)) => pc' = "search"
      ]_vars

\* accepted at the second pair of a grid that has more pairs
C2_Witness ==
    /\ pc = "post" /\ InInterval(scaleFactor)
    /\ nCalls = 2 /\ Len(GridOrder) > 2
    /\ scaleFactor = scaleFactorBoundaries[1]

(* ---- C3 ---- *)
\* C3: an estimation failure at one threshold pair is not fatal to the
\* file's search: unless the pair was the last of the grid, the search goes
\* on to the next pair, and no line is written to the log for it.
C3_EstimationFailureNotFatal ==
    [][(nCalls' = nCalls + 1 /\ lastResult' = "EstimationFailure"
            /\ nCalls' < Len(GridOrder)) =>
          (pc' = "search" /\ logFile' = logFile)]_vars

(* ---- C4 ---- *)
\* C4: a search ends without acceptance only when every threshold pair of
\* the grid was attempted; it then ends as failed: the alignment-unsuccessful
\* line of the file is appended to the log and nothing is written to disk.
\* A file that ended as failed has no file on disk and no aligned line.
C4_ExhaustedFails ==
    [][/\ (pc = "post" /\ ~InInterval(scaleFactor)) => nCalls = Len(GridOrder)
       /\ (pc = "post" /\ ~InInterval(scaleFactor) /\ pc' = "loop") =>
             /\ pairOutcome'[fileNumber] = "failed"
             /\ written' = written
             /\ \A r \in runs :
                   logFile'[r] = Append(logFile[r], UnsuccessfulLine(referenceFiles[fileNumber]))
       /\ \A k \in 1..Len(pairOutcome) :
             pairOutcome[k] = "failed" =>
                /\ \A n \in 1..Len(written) : written[n].image[2].file # FileName(k)
                /\ \A r \in runs : \A n \in LinesOf(logFile[r], FileName(k)) :
                      logFile[r][n].kind = "unsuccessful"
      ]_vars

\* a file failed after all pairs of a grid of at least four pairs
C4_Witness ==
    /\ pc = "loop" /\ fileNumber >= 1
    /\ pairOutcome[fileNumber] = "failed"
    /\ Len(GridOrder) >= 4
    /\ \E k \in 1..Len(pairOutcome) : pairOutcome[k] = "accepted"

(* ---- C5 ---- *)
\* The part of C5 about errors inside the processing of a file (unreadable
\* image, failure in alignImages, failure writing the output): such an
\* error leaves an error line for the file in the log and never ends the
\* run; every file before the current one has been dealt with; from the
\* loop head the next file or the end can always be taken; and a finished
\* run has dealt with every file, written the Finished line last and closed
\* the log.
PairErrorsDoNotAbort ==
    /\ \A k \in 1..Len(pairOutcome) :
          pairOutcome[k] = "error" =>
             /\ pc # "exit"
             /\ \A r \in runs : \E n \in LinesOf(logFile[r], FileName(k)) :
                   logFile[r][n].kind = "error"
    /\ pc = "exit" => fileNumber = 0
    /\ \A k \in 1..Len(pairOutcome) :
          (k < fileNumber \/ (pc \in {"loop", "done"} /\ k = fileNumber)) =>
              pairOutcome[k] # "pending"
    /\ pc = "loop" => ENABLED (NextFile \/ Finish)
    /\ pc = "done" =>
          /\ fileNumber = Len(referenceFiles)
          /\ logClosed
          /\ \A r \in runs : logFile[r][Len(logFile[r])].kind = "finished"

\* the ways a run may end before the file loop: an option or directory is
\* rejected, the output directory or the log file cannot be established,
\* the user declines to write into a non-empty output directory
SetupCauses == {"directories", "options", "outputDirectory", "declined", "logFile"}

\* C5: an error inside the processing of a file becomes a log entry and
\* never ends the run, and a run with a positive step ends early only on a
\* set-up error.
C5_AbortsOnlyOnSetupErrors ==
    /\ PairErrorsDoNotAbort
    /\ (pc = "exit" /\ tresholdChangeSteps > 0) => exitCause \in SetupCauses

(* ---- C6 ---- *)
\* C6: the first alignImages call of a file uses exactly the two base
\* thresholds.
C6_StartsAtBase ==
    nCalls = 1 => usedThresholds = <<tresholdReferenceImages, tresholdTargetImages>>

(* ---- C7 ---- *)
\* the offsets 0, s, 2s, ... strictly below top, then -s, -2s, ...
\* strictly above -bottom
OffsetsBetween(s, top, bottom) ==
    LET up == Cardinality({k \in 0..MaxThreshold : k * s < top})
        down == Cardinality({k \in 1..MaxThreshold : -(k * s) > -bottom})
    IN  [k \in 1..up |-> (k - 1) * s] \o [k \in 1..down |-> -(k * s)]

\* C7: for base threshold b, step s > 0 and max change m the range is
\* exactly 0, s, 2s, ... strictly below min(255-b, m) followed by
\* -s, -2s, ... strictly above -min(b, m); for b=100, s=2, m=20 it is
\* 0,2,...,18,-2,...,-18.
C7_ExactRange ==
    (RangesBuilt /\ tresholdChangeSteps > 0) =>
        /\ tresholdRangeReferenceImages =
              OffsetsBetween(tresholdChangeSteps,
                  IF 255 - tresholdReferenceImages < tresholdMaxChange
                  THEN 255 - tresholdReferenceImages ELSE tresholdMaxChange,
                  IF tresholdReferenceImages < tresholdMaxChange
                  THEN tresholdReferenceImages ELSE tresholdMaxChange)
        /\ tresholdRangeTargetImages =
              OffsetsBetween(tresholdChangeSteps,
                  IF 255 - tresholdTargetImages < tresholdMaxChange
                  THEN 255 - tresholdTargetImages ELSE tresholdMaxChange,
                  IF tresholdTargetImages < tresholdMaxChange
                  THEN tresholdTargetImages ELSE tresholdMaxChange)
        /\ (tresholdReferenceImages = 100 /\ tresholdChangeSteps = 2
               /\ tresholdMaxChange = 20) =>
              tresholdRangeReferenceImages =
                 <<0, 2, 4, 6, 8, 10, 12, 14, 16, 18,
                   -2, -4, -6, -8, -10, -12, -14, -16, -18>>

\* the example of the claim: b=100, s=2, m=20
C7_Witness ==
    /\ RangesBuilt
    /\ tresholdReferenceImages = 100 /\ tresholdChangeSteps = 2 /\ tresholdMaxChange = 20
    /\ Len(tresholdRangeReferenceImages) = 19
    /\ pc = "loop"

(* ---- C8 ---- *)
\* the imwrite calls that put a file at the given place
WritesAt(place) == {n \in 1..Len(written) : Resolve(written[n].path) = place}

\* C8: for every file that ended as accepted, exactly one imwrite call
\* put a file of the same name into the output directory, and it holds the
\* warped image of the thresholds logged for the file; exactly one call put
\* a file of the same name into the overlap subdirectory if overlap images
\* are not suppressed, and none did if they are.
C8_AcceptedOutputs ==
    \A k \in 1..Len(pairOutcome) :
       pairOutcome[k] = "accepted" =>
          LET file == FileName(k)
              dir == Resolve(outputDirectory)
          IN  /\ Cardinality(WritesAt(dir \o <<file>>)) = 1
              /\ \A n \in WritesAt(dir \o <<file>>) :
                    /\ written[n].image[1] = "transformed"
                    /\ \A r \in runs : \E l \in LinesOf(logFile[r], file) :
                          /\ logFile[r][l].kind = "aligned"
                          /\ written[n].image[2] =
                                Images(file, logFile[r][l].usedReference,
                                       logFile[r][l].usedTarget)
              /\ Cardinality(WritesAt(dir \o <<"overlap", file>>)) =
                    (IF suppressOverlapImages THEN 0 ELSE 1)
              /\ \A n \in WritesAt(dir \o <<"overlap", file>>) :
                    written[n].image[1] = "overlap"

\* two accepted files in one run, each with its overlap image
C8_Witness ==
    /\ pc = "done" /\ ~suppressOverlapImages
    /\ Len(pairOutcome) >= 2
    /\ pairOutcome[1] = "accepted" /\ pairOutcome[2] = "accepted"
    /\ Len(written) = 4

(* ---- C9 ---- *)
\* C9: no step taken inside the file loop changes the base thresholds, the
\* step, the max change, the two ranges, the scale factor boundaries, the
\* overlap option or the output directory.
C9_PairsShareNoState ==
    [][(pc \in {"loop", "search", "post"}) =>
          (UNCHANGED <<tresholdReferenceImages, tresholdTargetImages,
                       tresholdChangeSteps, tresholdMaxChange,
                       tresholdRangeReferenceImages, tresholdRangeTargetImages,
                       scaleFactorBoundaries, suppressOverlapImages,
                       outputDirectory>>)
      ]_vars

(* ---- C10 ---- *)
\* a log line without the values taken from the clock
Untimed(line) ==
    IF line.kind = "header" THEN [line EXCEPT !.logfile = 0, !.start = 0]
    ELSE IF line.kind = "finished" THEN [line EXCEPT !.time = 0]
    ELSE line

OptionsAccepted == pc # "validate" /\ exitCause \notin {"directories", "options"}

\* the step is an alignImages call for the current file that returned a
\* scale factor inside [low, high]
AcceptingCall ==
    /\ nCalls' = nCalls + 1
    /\ lastResult' = "returned"
    /\ InInterval(scaleFactor')
    /\ transformedImage' =
          Images(referenceFiles[fileNumber], usedThresholds'[1], usedThresholds'[2])

\* the current file's search holds the result of such a call of its own
HoldsOwnAcceptedResult ==
    /\ nCalls >= 1
    /\ lastResult = "returned"
    /\ scaleFactor # -1
    /\ InInterval(scaleFactor)
    /\ transformedImage =
          Images(referenceFiles[fileNumber], usedThresholds[1], usedThresholds[2])

\* C11: once the options are accepted, 0 <= low < high and the sentinel -1
\* is outside [low, high].  An aligned line is written to the log only by
\* an alignImages call for the current file that returned a scale factor
\* inside [low, high], and it names that file, thresholds and scale factor.
\* Output files are written, and a file ends as accepted, only while the
\* current file's search holds such a result of its own; the files written
\* carry the current file's name and the images of that call.  When one
\* of the two ranges is empty, no call is made and the file ends as failed
\* with nothing written.
C11_OnlyOwnAcceptedResult ==
    [][/\ OptionsAccepted =>
             /\ 0 <= scaleFactorBoundaries[1]
             /\ scaleFactorBoundaries[1] < scaleFactorBoundaries[2]
             /\ ~InInterval(-1)
       /\ \A r \in runs :
             (/\ Len(logFile'[r]) = Len(logFile[r]) + 1
              /\ logFile'[r][Len(logFile'[r])].kind = "aligned") =>
                 /\ AcceptingCall
                 /\ logFile'[r][Len(logFile'[r])] =
                       AlignedLine(referenceFiles[fileNumber], usedThresholds'[1],
                                   usedThresholds'[2], scaleFactor')
       /\ (written' # written) =>
             /\ pc = "post"
             /\ HoldsOwnAcceptedResult
             /\ \A n \in (Len(written) + 1)..Len(written') :
                   /\ written'[n].path[Len(written'[n].path)] = referenceFiles[fileNumber]
                   /\ written'[n].image[2] = transformedImage
       /\ \A k \in 1..Len(pairOutcome) :
             (pairOutcome[k] # "accepted" /\ pairOutcome'[k] = "accepted") =>
                 (k = fileNumber /\ pc = "post" /\ HoldsOwnAcceptedResult)
       /\ (pc = "post" /\ Len(GridOrder) = 0 /\ pc' = "loop") =>
             /\ nCalls = 0
             /\ scaleFactor = -1
             /\ pairOutcome'[fileNumber] = "failed"
             /\ written' = written
      ]_vars

\* with a lower boundary of 0: the first file was aligned and written, the
\* second file's first call raised, so the first file's images were still
\* held and nothing was written for the second
C11_Witness ==
    /\ pc = "done"
    /\ scaleFactorBoundaries[1] = 0
    /\ Len(pairOutcome) >= 2
    /\ pairOutcome[1] = "accepted" /\ pairOutcome[2] = "error"
    /\ nCalls = 1
    /\ transformedImage.file = FileName(1)
    /\ \A n \in 1..Len(written) : written[n].image[2].file = FileName(1)

====
